---- MODULE Spec2Model ----
(***************************************************************************)
(* Load verification agent: the verification engine (verifyLoad and its    *)
(* three checks), the FMCSA registry lookup, and the batch endpoint of the *)
(* HTTP server that runs several verifications concurrently.               *)
(*                                                                         *)
(* JavaScript values are modelled as tagged records [t, v] so that the     *)
(* coercions the code relies on (ToNumber in comparisons, Date parsing,    *)
(* property access on null) are computed, not assumed.                     *)
(* Human-readable reason strings are modelled as records                   *)
(* [kind, mc, n]: the template that produced the string and the values     *)
(* interpolated into it.                                                   *)
(***************************************************************************)
EXTENDS Integers, Sequences, FiniteSets, TLC

VARIABLES
    now,        \* the wall clock, Date.now(), in milliseconds
    apiKey,     \* process.env.FMCSA_API_KEY is set
    entry,      \* how verifyLoad is entered: "direct" call, "pair" of
                \* direct calls, "single" or "batch" endpoint
    calls,      \* calls[i]: the activation of verifyLoad for the i-th load
    wrappers,   \* wrappers[i]: the promise of the i-th batch map callback
    http        \* the batch request: its body, handler position and response

vars == <<now, apiKey, entry, calls, wrappers, http>>

----------------------------------------------------------------------------
(* Bounds of the model *)

\* Date.now() when the run starts (ms since the epoch)
Now0 == 10800000
\* how far one Tick moves the clock (ms)
TickMs == 30000
\* how many times the clock may advance during a run
MaxTicks == 2
\* longest batch body that is modelled
MaxBatch == 2

----------------------------------------------------------------------------
(* CONFIG *)

CREDIT_SCORE_MIN == 82
CREDIT_SCORE_MAX == 97
LOAD_FRESHNESS_WARNING_MINUTES == 30
LOAD_FRESHNESS_REJECT_MINUTES == 60
\* the batch endpoint refuses more loads than this
MAX_BATCH_LOADS == 50

----------------------------------------------------------------------------
(* JavaScript values *)

JsNumber(n) == [t |-> "number", v |-> n]
JsNaN       == [t |-> "NaN", v |-> 0]
JsUndefined == [t |-> "undefined", v |-> 0]
JsNull      == [t |-> "null", v |-> 0]
\* a string holding the decimal numeral of n
JsNumeral(n) == [t |-> "numeral", v |-> n]
\* a string that is neither a numeral nor a timestamp
JsText      == [t |-> "text", v |-> 0]
\* a string holding the ISO 8601 form of the instant ms
JsIso(ms)   == [t |-> "iso", v |-> ms]
\* a Symbol: a value whose conversion to a number throws a TypeError
JsSymbol    == [t |-> "symbol", v |-> 0]

\* score < n, score > n and new Date(x) throw a TypeError on a Symbol
CoercionThrows(x) == x.t = "symbol"

\* ToNumber, as applied by the relational operators: [nan, v]
Num(n) == [nan |-> FALSE, v |-> n]
NaN    == [nan |-> TRUE, v |-> 0]

ToNumber(x) ==
    CASE x.t = "number"  -> Num(x.v)
      [] x.t = "numeral" -> Num(x.v)
      [] x.t = "null"    -> Num(0)
      [] OTHER           -> NaN

\* x < n and x > n for a JavaScript value x and a number n:
\* every comparison with NaN is false
JsLess(x, n)    == LET a == ToNumber(x) IN ~a.nan /\ a.v < n
JsGreater(x, n) == LET a == ToNumber(x) IN ~a.nan /\ a.v > n

\* new Date(x).getTime()
DateGetTime(x) ==
    CASE x.t = "iso"    -> Num(x.v)
      [] x.t = "number" -> Num(x.v)
      [] x.t = "null"   -> Num(0)
      [] OTHER          -> NaN

\* a load: an object with the fields the engine reads, or a value that is
\* not an object (null, undefined, a primitive)
Load(id, mc, score, posted, rate) ==
    [t |-> "object", load_id |-> id, broker_name |-> "Test Logistics",
     broker_mc |-> mc, credit_score |-> score, posted_at |-> posted,
     pickup_city |-> "Chicago, IL", delivery_city |-> "Atlanta, GA",
     rate |-> rate, equipment |-> "Dry Van"]
NonObject(tag) ==
    [t |-> tag, load_id |-> "", broker_name |-> "", broker_mc |-> "",
     credit_score |-> JsUndefined, posted_at |-> JsUndefined,
     pickup_city |-> "", delivery_city |-> "", rate |-> 0, equipment |-> ""]

\* property access load.f throws a TypeError exactly on null and undefined
AccessThrows(load) == load.t \in {"null", "undefined"}
\* load.f on a primitive is undefined
Field(load, f) == IF load.t = "object" THEN load[f] ELSE JsUndefined
StrField(load, f) == IF load.t = "object" THEN load[f] ELSE "undefined"

----------------------------------------------------------------------------
(* Reasons *)

Reason(kind, mc, n) == [kind |-> kind, mc |-> mc, n |-> n]
NoReason == Reason("none", "", 0)
Present(r) == r.kind # "none"

----------------------------------------------------------------------------
(* The checks *)

\* variant: a score below the minimum only warns
verifyCreditScore_lowWarns(score) ==
    IF JsLess(score, CREDIT_SCORE_MIN) \/ JsGreater(score, CREDIT_SCORE_MAX)
    THEN [status |-> "SUSPICIOUS", reject |-> FALSE,
          warning |-> Reason("CREDIT_UNUSUALLY_HIGH", "", ToNumber(score).v),
          reason |-> NoReason]
    ELSE [status |-> "PASSED", reject |-> FALSE, warning |-> NoReason,
          reason |-> NoReason]

\* variant: the upper bound is exclusive (>= instead of >)
verifyCreditScore_maxExclusive(score) ==
    IF JsLess(score, CREDIT_SCORE_MIN)
    THEN [status |-> "FAILED", reject |-> TRUE, warning |-> NoReason,
          reason |-> Reason("CREDIT_BELOW_MIN", "", ToNumber(score).v)]
    ELSE IF JsGreater(score, CREDIT_SCORE_MAX - 1)
    THEN [status |-> "SUSPICIOUS", reject |-> FALSE,
          warning |-> Reason("CREDIT_UNUSUALLY_HIGH", "", ToNumber(score).v),
          reason |-> NoReason]
    ELSE [status |-> "PASSED", reject |-> FALSE, warning |-> NoReason,
          reason |-> NoReason]

\* Credit score verification
verifyCreditScore(score) ==
    IF JsLess(score, CREDIT_SCORE_MIN)
    THEN [status |-> "FAILED", reject |-> TRUE, warning |-> NoReason,
          reason |-> Reason("CREDIT_BELOW_MIN", "", ToNumber(score).v)]
    ELSE IF JsGreater(score, CREDIT_SCORE_MAX)
    THEN [status |-> "SUSPICIOUS", reject |-> FALSE,
          warning |-> Reason("CREDIT_UNUSUALLY_HIGH", "", ToNumber(score).v),
          reason |-> NoReason]
    ELSE [status |-> "PASSED", reject |-> FALSE, warning |-> NoReason,
          reason |-> NoReason]

\* Math.floor((clock - postedTime) / 1000 / 60); NaN when postedTime is NaN
AgeMinutes(postedAt, clock) ==
    LET postedTime == DateGetTime(postedAt)
    IN  IF postedTime.nan THEN NaN
        ELSE Num(((clock - postedTime.v) \div 1000) \div 60)

\* variant: the reject threshold is not applied, a stale load only warns
verifyLoadFreshness_noReject(postedAt, clock) ==
    LET ageMinutes == AgeMinutes(postedAt, clock)
    IN  IF ~ageMinutes.nan /\ ageMinutes.v > LOAD_FRESHNESS_WARNING_MINUTES
        THEN [ageMinutes |-> ageMinutes, reject |-> FALSE,
              warning |-> Reason("LOAD_MAY_BE_STALE", "", ageMinutes.v),
              reason |-> NoReason]
        ELSE [ageMinutes |-> ageMinutes, reject |-> FALSE, warning |-> NoReason,
              reason |-> NoReason]

\* variant: the reject threshold is inclusive (>= instead of >)
verifyLoadFreshness_rejectInclusive(postedAt, clock) ==
    LET ageMinutes == AgeMinutes(postedAt, clock)
    IN  IF ~ageMinutes.nan /\ ageMinutes.v >= LOAD_FRESHNESS_REJECT_MINUTES
        THEN [ageMinutes |-> ageMinutes, reject |-> TRUE, warning |-> NoReason,
              reason |-> Reason("LOAD_TOO_OLD", "", ageMinutes.v)]
        ELSE IF ~ageMinutes.nan /\ ageMinutes.v > LOAD_FRESHNESS_WARNING_MINUTES
        THEN [ageMinutes |-> ageMinutes, reject |-> FALSE,
              warning |-> Reason("LOAD_MAY_BE_STALE", "", ageMinutes.v),
              reason |-> NoReason]
        ELSE [ageMinutes |-> ageMinutes, reject |-> FALSE, warning |-> NoReason,
              reason |-> NoReason]

\* Load freshness verification, reading the clock
verifyLoadFreshness(postedAt, clock) ==
    LET ageMinutes == AgeMinutes(postedAt, clock)
    IN  IF ~ageMinutes.nan /\ ageMinutes.v > LOAD_FRESHNESS_REJECT_MINUTES
        THEN [ageMinutes |-> ageMinutes, reject |-> TRUE, warning |-> NoReason,
              reason |-> Reason("LOAD_TOO_OLD", "", ageMinutes.v)]
        ELSE IF ~ageMinutes.nan /\ ageMinutes.v > LOAD_FRESHNESS_WARNING_MINUTES
        THEN [ageMinutes |-> ageMinutes, reject |-> FALSE,
              warning |-> Reason("LOAD_MAY_BE_STALE", "", ageMinutes.v),
              reason |-> NoReason]
        ELSE [ageMinutes |-> ageMinutes, reject |-> FALSE, warning |-> NoReason,
              reason |-> NoReason]

(* The registry: what the GET can come back with *)

\* kind "ok": a 2xx response whose body has the shape `data`
\*   data "empty": no body; "noContent": no content member;
\*   "noCarrier": content without carrier; "carrier": a carrier object whose
\*   members allowedToOperate, outOfServiceDate, legalName are "absent" or set
\* kind "axiosError": the request failed with `code` and, if the registry
\*   answered, `httpStatus` (0 when there is no response)
\* kind "exception": a non-axios exception inside the try block
Response(kind, code, httpStatus, data, allowed, oos, name) ==
    [kind |-> kind, code |-> code, httpStatus |-> httpStatus, data |-> data,
     allowedToOperate |-> allowed, outOfServiceDate |-> oos, legalName |-> name]

NoResp == Response("none", "", 0, "empty", "absent", "absent", "absent")

OkResponses ==
    { Response("ok", "", 200, d, "absent", "absent", "absent")
        : d \in {"empty", "noContent", "noCarrier"} }
    \cup
    { Response("ok", "", 200, "carrier", a, o, n)
        : a \in {"Y", "N", "absent"}, o \in {"date", "null", "absent"},
          n \in {"ACME", "absent"} }

FailedResponses ==
    { Response("axiosError", "ECONNABORTED", 0, "empty", "absent", "absent", "absent"),
      Response("axiosError", "ETIMEDOUT", 0, "empty", "absent", "absent", "absent"),
      Response("axiosError", "ERR_BAD_REQUEST", 404, "empty", "absent", "absent", "absent"),
      Response("axiosError", "ERR_BAD_RESPONSE", 500, "empty", "absent", "absent", "absent"),
      Response("axiosError", "ERR_NETWORK", 0, "empty", "absent", "absent", "absent"),
      Response("exception", "", 0, "empty", "absent", "absent", "absent") }

NoCarrier ==
    [present |-> FALSE, mc_number |-> "", legal_name |-> "", status |-> "",
     allowed_to_operate |-> FALSE, out_of_service |-> FALSE]

\* the carrierInfo object built from a carrier of the response body
CarrierInfo(mcNumber, resp) ==
    [present |-> TRUE,
     mc_number |-> mcNumber,
     legal_name |-> IF resp.legalName = "absent" THEN "Unknown" ELSE resp.legalName,
     status |-> IF resp.allowedToOperate = "absent" THEN "UNKNOWN"
                ELSE resp.allowedToOperate,
     allowed_to_operate |-> resp.allowedToOperate = "Y",
     out_of_service |-> resp.outOfServiceDate # "null"]

FmcsaCheck(status, carrier, rej, warning, reason) ==
    [status |-> status, carrier |-> carrier, reject |-> rej,
     warning |-> warning, reason |-> reason]
FmcsaUnset == FmcsaCheck("unset", NoCarrier, FALSE, NoReason, NoReason)

\* variant: a skipped lookup carries no warning
fmcsaSkipped_noWarning ==
    FmcsaCheck("SKIPPED", NoCarrier, FALSE, NoReason, NoReason)

\* verifyFMCSA when FMCSA_API_KEY is not configured
fmcsaSkipped ==
    FmcsaCheck("SKIPPED", NoCarrier, FALSE,
               Reason("FMCSA_UNAVAILABLE_NO_KEY", "", 0), NoReason)

\* verifyFMCSA, the try block after axios.get resolved
fmcsaOnSuccess(mcNumber, resp) ==
    IF resp.data \in {"empty", "noContent"}
    THEN FmcsaCheck("NOT_FOUND", NoCarrier, TRUE, NoReason,
                    Reason("MC_NOT_FOUND", mcNumber, 0))
    ELSE IF resp.data = "noCarrier"
    THEN FmcsaCheck("NOT_FOUND", NoCarrier, TRUE, NoReason,
                    Reason("MC_NO_CARRIER_DATA", mcNumber, 0))
    ELSE LET carrierInfo == CarrierInfo(mcNumber, resp)
         IN  IF ~carrierInfo.allowed_to_operate
             THEN FmcsaCheck("NOT_AUTHORIZED", carrierInfo, TRUE, NoReason,
                             Reason("CARRIER_NOT_AUTHORIZED", mcNumber, 0))
             ELSE IF carrierInfo.out_of_service
             THEN FmcsaCheck("OUT_OF_SERVICE", carrierInfo, TRUE, NoReason,
                             Reason("CARRIER_OUT_OF_SERVICE", mcNumber, 0))
             ELSE FmcsaCheck("ACTIVE", carrierInfo, FALSE, NoReason, NoReason)

\* variant: a timeout carries a reject disposition instead of a warning
fmcsaOnError_timeoutRejects(mcNumber, resp) ==
    IF resp.kind = "axiosError" /\ resp.code \in {"ECONNABORTED", "ETIMEDOUT"}
    THEN FmcsaCheck("TIMEOUT", NoCarrier, TRUE, NoReason,
                    Reason("FMCSA_TIMEOUT", "", 0))
    ELSE IF resp.kind = "axiosError" /\ resp.httpStatus = 404
    THEN FmcsaCheck("NOT_FOUND", NoCarrier, TRUE, NoReason,
                    Reason("MC_NOT_FOUND", mcNumber, 0))
    ELSE FmcsaCheck("ERROR", NoCarrier, FALSE,
                    Reason("FMCSA_ERROR", "", 0), NoReason)

\* variant: every HTTP error status is treated as carrier-not-found
fmcsaOnError_anyStatusRejects(mcNumber, resp) ==
    IF resp.kind = "axiosError" /\ resp.code \in {"ECONNABORTED", "ETIMEDOUT"}
    THEN FmcsaCheck("TIMEOUT", NoCarrier, FALSE,
                    Reason("FMCSA_TIMEOUT", "", 0), NoReason)
    ELSE IF resp.kind = "axiosError" /\ resp.httpStatus # 0
    THEN FmcsaCheck("NOT_FOUND", NoCarrier, TRUE, NoReason,
                    Reason("MC_NOT_FOUND", mcNumber, 0))
    ELSE FmcsaCheck("ERROR", NoCarrier, FALSE,
                    Reason("FMCSA_ERROR", "", 0), NoReason)

\* verifyFMCSA, the catch block
fmcsaOnError(mcNumber, resp) ==
    IF resp.kind = "axiosError" /\ resp.code \in {"ECONNABORTED", "ETIMEDOUT"}
    THEN FmcsaCheck("TIMEOUT", NoCarrier, FALSE,
                    Reason("FMCSA_TIMEOUT", "", 0), NoReason)
    ELSE IF resp.kind = "axiosError" /\ resp.httpStatus = 404
    THEN FmcsaCheck("NOT_FOUND", NoCarrier, TRUE, NoReason,
                    Reason("MC_NOT_FOUND", mcNumber, 0))
    ELSE FmcsaCheck("ERROR", NoCarrier, FALSE,
                    Reason("FMCSA_ERROR", "", 0), NoReason)

\* verifyFMCSA once the GET has settled
fmcsaOnResponse(mcNumber, resp) ==
    IF resp.kind = "ok" THEN fmcsaOnSuccess(mcNumber, resp)
    ELSE fmcsaOnError(mcNumber, resp)

----------------------------------------------------------------------------
(* Decision builders *)

Metadata(credit, fmcsa, carrier, age) ==
    [credit_score_check |-> credit, fmcsa_status |-> fmcsa,
     carrier_info |-> carrier, load_age_minutes |-> age]
\* the age member of metadata: absent until the freshness check sets it
NoAge == [set |-> FALSE, nan |-> FALSE, v |-> 0]
SetAge(a) == [set |-> TRUE, nan |-> a.nan, v |-> a.v]
EmptyMetadata == Metadata("unset", "unset", NoCarrier, NoAge)

Result(status, reasons, clock, metadata) ==
    [verification_status |-> status, reasons |-> reasons,
     verified_at |-> clock, metadata |-> metadata]
NoResult == Result("none", <<>>, 0, EmptyMetadata)

approve(metadata, clock) == Result("APPROVED", <<>>, clock, metadata)
reject(reason, metadata, clock) == Result("REJECTED", <<reason>>, clock, metadata)
needsReview(reasons, metadata, clock) ==
    Result("NEEDS_REVIEW", reasons, clock, metadata)

----------------------------------------------------------------------------
(* verifyLoad: one activation per load *)

\* pc: "notCalled"; "awaitGet": inside verifyFMCSA, waiting for axios.get;
\*     "awaitFmcsa": verifyFMCSA has returned and verifyLoad waits to resume;
\*     "done": the promise of verifyLoad has settled (outcome says how)
\* trace lists the checks in the order they were evaluated, gets counts the
\* GET requests issued, started is the clock when verifyLoad was called,
\* response is what the GET settled with
NewCall(load) ==
    [load |-> load, pc |-> "notCalled", outcome |-> "pending",
     creditCheck |-> [status |-> "unset", reject |-> FALSE,
                      warning |-> NoReason, reason |-> NoReason],
     fmcsaCheck |-> FmcsaUnset,
     freshnessCheck |-> [ageMinutes |-> NaN, reject |-> FALSE,
                         warning |-> NoReason, reason |-> NoReason],
     freshnessRan |-> FALSE,
     reasons |-> <<>>, metadata |-> EmptyMetadata, result |-> NoResult,
     trace |-> <<>>, gets |-> 0, started |-> 0, fault |-> FALSE,
     response |-> NoResp]

\* return from verifyLoad with result r
Return(c, r) == [c EXCEPT !.pc = "done", !.outcome = "returned", !.result = r]

\* variant: the catch block lets the exception escape
verifyLoadCatch_rethrow(c, clock) ==
    [c EXCEPT !.pc = "done", !.outcome = "threw", !.fault = TRUE]

\* variant: the catch block adds the system error to the accumulated warnings
verifyLoadCatch_keepsWarnings(c, clock) ==
    [Return(c, needsReview(Append(c.reasons, Reason("SYSTEM_ERROR", "", 0)),
                           c.metadata, clock))
        EXCEPT !.fault = TRUE]

\* the catch block of verifyLoad
verifyLoadCatch(c, clock) ==
    [Return(c, needsReview(<<Reason("SYSTEM_ERROR", "", 0)>>, c.metadata, clock))
        EXCEPT !.fault = TRUE]

\* variant: the warning is put in front of the list (unshift instead of push)
PushWarning_prepends(reasons, check) ==
    IF Present(check.warning) THEN <<check.warning>> \o reasons ELSE reasons

\* reasons.push(check.warning) when the check carries a warning
PushWarning(reasons, check) ==
    IF Present(check.warning) THEN Append(reasons, check.warning) ELSE reasons

\* variant: the GET is issued before the credential is looked at
verifyFMCSAStart_requestsWithoutKey(c, key) ==
    IF ~key
    THEN [c EXCEPT !.pc = "awaitFmcsa", !.fmcsaCheck = fmcsaSkipped,
                   !.gets = @ + 1, !.trace = Append(@, "registry")]
    ELSE [c EXCEPT !.pc = "awaitGet", !.gets = @ + 1,
                   !.trace = Append(@, "registry")]

\* the call of verifyFMCSA(load.broker_mc) up to its first suspension
verifyFMCSAStart(c, key) ==
    IF ~key
    THEN [c EXCEPT !.pc = "awaitFmcsa", !.fmcsaCheck = fmcsaSkipped,
                   !.trace = Append(@, "registry")]
    ELSE [c EXCEPT !.pc = "awaitGet", !.gets = @ + 1,
                   !.trace = Append(@, "registry")]

\* variant: no early return after a credit reject, the registry is asked
verifyLoadStart_noShortCircuit(c0, key, clock) ==
    LET c == [c0 EXCEPT !.started = clock]
    IN  IF AccessThrows(c.load) THEN verifyLoadCatch(c, clock)
        ELSE IF CoercionThrows(Field(c.load, "credit_score"))
        THEN verifyLoadCatch([c EXCEPT !.trace = Append(@, "credit")], clock)
        ELSE
        LET creditCheck == verifyCreditScore(Field(c.load, "credit_score"))
            c1 == [c EXCEPT !.creditCheck = creditCheck,
                            !.trace = Append(@, "credit"),
                            !.metadata.credit_score_check = creditCheck.status]
        IN  verifyFMCSAStart(
                [c1 EXCEPT !.reasons = PushWarning(@, creditCheck)], key)

\* variant: the credit check is fed the rate instead of the credit score
verifyLoadStart_readsRate(c0, key, clock) ==
    LET c == [c0 EXCEPT !.started = clock]
    IN  IF AccessThrows(c.load) THEN verifyLoadCatch(c, clock)
        ELSE
        LET creditCheck ==
                verifyCreditScore(IF c.load.t = "object"
                                  THEN JsNumber(c.load.rate) ELSE JsUndefined)
            c1 == [c EXCEPT !.creditCheck = creditCheck,
                            !.trace = Append(@, "credit"),
                            !.metadata.credit_score_check = creditCheck.status]
        IN  IF creditCheck.reject
            THEN Return(c1, reject(creditCheck.reason, c1.metadata, clock))
            ELSE verifyFMCSAStart(
                     [c1 EXCEPT !.reasons = PushWarning(@, creditCheck)], key)

\* verifyLoad from its call to its first suspension: the credit check
verifyLoadStart(c0, key, clock) ==
    LET c == [c0 EXCEPT !.started = clock]
    IN  IF AccessThrows(c.load) THEN verifyLoadCatch(c, clock)
        ELSE IF CoercionThrows(Field(c.load, "credit_score"))
        THEN verifyLoadCatch([c EXCEPT !.trace = Append(@, "credit")], clock)
        ELSE
        LET creditCheck == verifyCreditScore(Field(c.load, "credit_score"))
            c1 == [c EXCEPT !.creditCheck = creditCheck,
                            !.trace = Append(@, "credit"),
                            !.metadata.credit_score_check = creditCheck.status]
        IN  IF creditCheck.reject
            THEN Return(c1, reject(creditCheck.reason, c1.metadata, clock))
            ELSE verifyFMCSAStart(
                     [c1 EXCEPT !.reasons = PushWarning(@, creditCheck)], key)

\* variant: the accumulated warnings are ignored by the final decision
finalDecision_ignoresWarnings(c, clock) ==
    Return(c, approve(c.metadata, clock))

\* the final decision of verifyLoad
finalDecision(c, clock) ==
    IF Len(c.reasons) > 0
    THEN Return(c, needsReview(c.reasons, c.metadata, clock))
    ELSE Return(c, approve(c.metadata, clock))

\* variant: a freshness reject is appended to the accumulated warnings
verifyLoadFreshnessStep_keepsWarnings(c, clock) ==
    LET freshnessCheck == verifyLoadFreshness(Field(c.load, "posted_at"), clock)
        c1 == [c EXCEPT !.freshnessCheck = freshnessCheck,
                        !.freshnessRan = TRUE,
                        !.trace = Append(@, "freshness"),
                        !.metadata.load_age_minutes =
                            SetAge(freshnessCheck.ageMinutes)]
    IN  IF CoercionThrows(Field(c.load, "posted_at"))
        THEN verifyLoadCatch([c EXCEPT !.trace = Append(@, "freshness")], clock)
        ELSE IF freshnessCheck.reject
        THEN Return(c1, Result("REJECTED",
                               Append(c1.reasons, freshnessCheck.reason),
                               clock, c1.metadata))
        ELSE finalDecision([c1 EXCEPT !.reasons = PushWarning(@, freshnessCheck)],
                           clock)

\* verifyLoad from the freshness check on
verifyLoadFreshnessStep(c, clock) ==
    LET freshnessCheck == verifyLoadFreshness(Field(c.load, "posted_at"), clock)
        c1 == [c EXCEPT !.freshnessCheck = freshnessCheck,
                        !.freshnessRan = TRUE,
                        !.trace = Append(@, "freshness"),
                        !.metadata.load_age_minutes =
                            SetAge(freshnessCheck.ageMinutes)]
    IN  IF CoercionThrows(Field(c.load, "posted_at"))
        THEN verifyLoadCatch([c EXCEPT !.trace = Append(@, "freshness")], clock)
        ELSE IF freshnessCheck.reject
        THEN Return(c1, reject(freshnessCheck.reason, c1.metadata, clock))
        ELSE finalDecision([c1 EXCEPT !.reasons = PushWarning(@, freshnessCheck)],
                           clock)

\* verifyLoad resumed with the settled fmcsaCheck
verifyLoadResume(c, clock) ==
    LET fmcsaCheck == c.fmcsaCheck
        c1 == [c EXCEPT !.metadata.fmcsa_status = fmcsaCheck.status,
                        !.metadata.carrier_info =
                            IF fmcsaCheck.carrier.present
                            THEN fmcsaCheck.carrier ELSE @]
    IN  IF fmcsaCheck.reject
        THEN Return(c1, reject(fmcsaCheck.reason, c1.metadata, clock))
        ELSE verifyLoadFreshnessStep(
                 [c1 EXCEPT !.reasons = PushWarning(@, fmcsaCheck)], clock)

----------------------------------------------------------------------------
(* POST /api/verify/batch *)

Entry(id, status, reasons, clock, metadata, hasMetadata) ==
    [load_id |-> id, verification_status |-> status, reasons |-> reasons,
     verified_at |-> clock, metadata |-> metadata, hasMetadata |-> hasMetadata]
NoEntry == Entry("", "none", <<>>, 0, EmptyMetadata, FALSE)

\* { load_id: load.load_id, ...result }
EntryOf(load, r) ==
    Entry(StrField(load, "load_id"), r.verification_status, r.reasons,
          r.verified_at, r.metadata, TRUE)

\* the entry built by the catch block of the map callback
FallbackEntry(load, clock) ==
    Entry(StrField(load, "load_id"), "NEEDS_REVIEW",
          <<Reason("VERIFICATION_ERROR", "", 0)>>, clock, EmptyMetadata, FALSE)

\* the promise returned by the map callback for one load
Pending == [state |-> "pending", value |-> NoEntry]
Fulfilled(e) == [state |-> "fulfilled", value |-> e]
Rejected == [state |-> "rejected", value |-> NoEntry]

\* the map callback once `await verifyLoad(load)` has settled for call c:
\* the try block builds the entry, the catch block builds the fallback, and
\* both read load.load_id
mapCallback(c, clock) ==
    IF c.outcome = "returned" /\ ~AccessThrows(c.load)
    THEN Fulfilled(EntryOf(c.load, c.result))
    ELSE IF AccessThrows(c.load) THEN Rejected
    ELSE Fulfilled(FallbackEntry(c.load, clock))

CountStatus(results, status) ==
    Cardinality({ i \in 1..Len(results) : results[i].verification_status = status })

HttpResponse(status, error, results) ==
    [status |-> status, error |-> error, results |-> results,
     total |-> Len(results),
     approved |-> CountStatus(results, "APPROVED"),
     rejected |-> CountStatus(results, "REJECTED"),
     needs_review |-> CountStatus(results, "NEEDS_REVIEW")]
NoResponse == HttpResponse(0, "", <<>>)

\* Promise.all over the callbacks' promises: "rejected" as soon as one is
\* rejected, "fulfilled" once all are fulfilled
PromiseAll(ws) ==
    IF \E i \in 1..Len(ws) : ws[i].state = "rejected" THEN "rejected"
    ELSE IF \A i \in 1..Len(ws) : ws[i].state = "fulfilled" THEN "fulfilled"
    ELSE "pending"

----------------------------------------------------------------------------
(* POST /api/verify *)

\* typeof x === 'number' (NaN is a number)
TypeofNumber(x) == x.t \in {"number", "NaN"}
\* !x for a field value
Falsy(x) ==
    \/ x.t \in {"undefined", "null", "NaN"}
    \/ x.t = "number" /\ x.v = 0
\* isNaN(Date.parse(x)) for a truthy field value
DateParseIsNaN(x) == x.t # "iso"

\* Input validation: the message returned, "null" when the load is accepted.
\* A load that is not an object has no fields; the caller handles the
\* TypeError raised on null and undefined.
validateLoadInput(load) ==
    IF load.t # "object" THEN "load_id is required"
    ELSE IF load.load_id = "" THEN "load_id is required"
    ELSE IF load.broker_name = "" THEN "broker_name is required"
    ELSE IF load.broker_mc = "" THEN "broker_mc is required"
    ELSE IF ~TypeofNumber(load.credit_score) THEN "credit_score must be a number"
    ELSE IF Falsy(load.posted_at) THEN "posted_at is required"
    ELSE IF DateParseIsNaN(load.posted_at)
    THEN "posted_at must be valid ISO 8601 timestamp"
    ELSE IF JsLess(load.credit_score, 0) \/ JsGreater(load.credit_score, 100)
    THEN "credit_score must be between 0 and 100"
    ELSE "null"

\* validateLoadInput(load) throws: load.load_id on null, Date.parse on a Symbol
validateThrows(load) ==
    \/ AccessThrows(load)
    \/ /\ validateLoadInput([load EXCEPT !.posted_at = JsIso(0)]) = "null"
       /\ CoercionThrows(load.posted_at)

----------------------------------------------------------------------------
(* Inputs *)

CreditValues ==
    { JsNumber(n) : n \in {0, 81, 82, 85, 97, 98, 100} }
    \cup {JsNaN, JsUndefined, JsNull, JsNumeral(50), JsText, JsSymbol}

\* posting instants, by their age in ms when the run starts
PostedValues ==
    { JsIso(Now0 - a) : a \in {-60000, 600000, 1800000, 1830000, 1860000,
                               3600000, 3659999, 3660000, 5400000} }
    \cup {JsText, JsUndefined, JsNull, JsSymbol}

DirectLoads ==
    { Load("test-load-001", "123456", s, p, 2400)
        : s \in CreditValues, p \in PostedValues }
    \cup { NonObject(t) : t \in {"null", "undefined", "number"} }

\* bodies of POST /api/verify (parsed JSON objects; a missing member reads
\* as undefined, a missing string member as "")
VerifyLoads ==
    { Load(id, mc, s, p, 2400)
        : id \in {"test-load-001", ""}, mc \in {"123456", ""},
          s \in { JsNumber(n) : n \in {-1, 0, 85, 98, 100, 101} }
                \cup {JsUndefined, JsNull, JsNumeral(50)},
          p \in {JsIso(Now0 - 600000), JsIso(Now0 - 2700000), JsText,
                 JsUndefined, JsNull} }
    \cup { [Load("test-load-001", "123456", JsNumber(85),
                 JsIso(Now0 - 600000), 2400) EXCEPT !.broker_name = ""] }

\* pairs of offers that agree on credit_score, posted_at and broker_mc; the
\* second differs from the first in one pass-through field, or in all
PairBase ==
    { Load("test-load-001", "123456", JsNumber(n), JsIso(Now0 - a), 2400)
        : n \in {81, 85, 98}, a \in {600000, 2700000, 5400000} }

PassThroughVariants(load) ==
    { [load EXCEPT !.load_id = "test-load-002"],
      [load EXCEPT !.broker_name = "Other Logistics"],
      [load EXCEPT !.pickup_city = "Dallas, TX"],
      [load EXCEPT !.delivery_city = "Miami, FL"],
      [load EXCEPT !.rate = 90],
      [load EXCEPT !.equipment = "Reefer"],
      [load EXCEPT !.load_id = "test-load-002",
                   !.broker_name = "Other Logistics",
                   !.pickup_city = "Dallas, TX",
                   !.delivery_city = "Miami, FL",
                   !.rate = 90,
                   !.equipment = "Reefer"] }

\* the test suite's base load with every integer score of the validated range
ScoreLoads ==
    { Load("test-load-001", "123456", JsNumber(n), JsIso(Now0 - 600000), 2400)
        : n \in 0..100 }

\* elements of a batch body (JSON: no undefined)
BatchLoads ==
    { NonObject("null"), NonObject("number"),
      Load("A", "123456", JsNumber(85), JsIso(Now0 - 600000), 2400),
      Load("B", "654321", JsNumber(98), JsIso(Now0 - 2700000), 1800) }

RECURSIVE SeqsUpTo(_, _)
SeqsUpTo(S, n) ==
    IF n = 0 THEN {<<>>}
    ELSE LET shorter == SeqsUpTo(S, n - 1)
         IN  shorter \cup { Append(q, x) : q \in shorter, x \in S }

BatchBodies ==
    { [isArray |-> TRUE, loads |-> q] : q \in SeqsUpTo(BatchLoads, MaxBatch) }
    \cup { [isArray |-> FALSE, loads |-> <<>>] }

BatchResponses ==
    { Response("ok", "", 200, "carrier", "Y", "null", "ACME"),
      Response("axiosError", "ECONNABORTED", 0, "empty", "absent", "absent", "absent"),
      Response("axiosError", "ERR_BAD_REQUEST", 404, "empty", "absent", "absent", "absent") }

ResponsesFor(e) ==
    IF e = "direct" THEN OkResponses \cup FailedResponses ELSE BatchResponses

----------------------------------------------------------------------------
(* State machine *)

\* a caller (the test runner) holds one load and has not called verifyLoad yet
Init ==
    /\ now = Now0
    /\ apiKey \in BOOLEAN
    /\ entry = "direct"
    /\ \E load \in DirectLoads : calls = <<NewCall(load)>>
    /\ wrappers = <<>>
    /\ http = [body |-> [isArray |-> FALSE, loads |-> <<>>], pc |-> "unused",
               response |-> NoResponse]

\* a caller holds two offers that differ in pass-through fields only and has
\* not called verifyLoad yet
InitPair ==
    /\ now = Now0
    /\ apiKey \in BOOLEAN
    /\ entry = "pair"
    /\ \E load \in PairBase : \E other \in PassThroughVariants(load) :
          calls = <<NewCall(load), NewCall(other)>>
    /\ wrappers = <<>>
    /\ http = [body |-> [isArray |-> FALSE, loads |-> <<>>], pc |-> "unused",
               response |-> NoResponse]

\* a caller holds one load of ScoreLoads and has not called verifyLoad yet
InitScores ==
    /\ now = Now0
    /\ apiKey \in BOOLEAN
    /\ entry = "direct"
    /\ \E load \in ScoreLoads : calls = <<NewCall(load)>>
    /\ wrappers = <<>>
    /\ http = [body |-> [isArray |-> FALSE, loads |-> <<>>], pc |-> "unused",
               response |-> NoResponse]

\* an authenticated POST /api/verify/batch has arrived
InitBatch ==
    /\ now = Now0
    /\ apiKey \in BOOLEAN
    /\ entry = "batch"
    /\ calls = <<>>
    /\ wrappers = <<>>
    /\ \E body \in BatchBodies :
          http = [body |-> body, pc |-> "received", response |-> NoResponse]

\* an authenticated POST /api/verify has arrived
InitVerify ==
    /\ now = Now0
    /\ apiKey \in BOOLEAN
    /\ entry = "single"
    /\ calls = <<>>
    /\ wrappers = <<>>
    /\ \E load \in VerifyLoads :
          http = [body |-> [isArray |-> FALSE, loads |-> <<load>>],
                  pc |-> "received", response |-> NoResponse]

\* time passes
Tick ==
    /\ now < Now0 + MaxTicks * TickMs
    /\ now' = now + TickMs
    /\ UNCHANGED <<apiKey, entry, calls, wrappers, http>>

\* the caller calls verifyLoad(load)
Invoke(i) ==
    /\ entry \in {"direct", "pair"}
    /\ calls[i].pc = "notCalled"
    /\ calls' = [calls EXCEPT ![i] = verifyLoadStart(@, apiKey, now)]
    /\ UNCHANGED <<now, apiKey, entry, wrappers, http>>

\* the GET of call i settles and verifyFMCSA runs to its return
RegistryResponds(i) ==
    /\ calls[i].pc = "awaitGet"
    /\ \E resp \in ResponsesFor(entry) :
          LET mcNumber == StrField(calls[i].load, "broker_mc")
          IN  calls' = [calls EXCEPT ![i].pc = "awaitFmcsa",
                                     ![i].response = resp,
                                     ![i].fmcsaCheck =
                                         fmcsaOnResponse(mcNumber, resp)]
    /\ UNCHANGED <<now, apiKey, entry, wrappers, http>>

\* verifyLoad of call i resumes after `await verifyFMCSA(...)`
Resume(i) ==
    /\ calls[i].pc = "awaitFmcsa"
    /\ calls' = [calls EXCEPT ![i] = verifyLoadResume(@, now)]
    /\ UNCHANGED <<now, apiKey, entry, wrappers, http>>

\* the batch handler runs up to `await Promise.all(...)`: loads.map calls
\* verifyLoad for every load, each running to its first suspension
BatchReceive ==
    /\ http.pc = "received"
    /\ LET loads == http.body.loads
       IN  IF ~http.body.isArray \/ Len(loads) > MAX_BATCH_LOADS
           THEN /\ http' = [http EXCEPT !.pc = "responded",
                              !.response = HttpResponse(400, "Invalid input", <<>>)]
                /\ UNCHANGED <<calls, wrappers>>
           ELSE /\ calls' = [i \in 1..Len(loads) |->
                               verifyLoadStart(NewCall(loads[i]), apiKey, now)]
                /\ wrappers' = [i \in 1..Len(loads) |-> Pending]
                /\ http' = [http EXCEPT !.pc = "awaitAll"]
    /\ UNCHANGED <<now, apiKey, entry>>

\* the map callback of load i resumes after `await verifyLoad(load)`
WrapperResume(i) ==
    /\ wrappers[i].state = "pending"
    /\ calls[i].pc = "done"
    /\ wrappers' = [wrappers EXCEPT ![i] = mapCallback(calls[i], now)]
    /\ UNCHANGED <<now, apiKey, entry, calls, http>>

\* Promise.all settles and the handler sends the response
BatchRespond ==
    /\ http.pc = "awaitAll"
    /\ PromiseAll(wrappers) # "pending"
    /\ http' = [http EXCEPT !.pc = "responded",
                  !.response =
                     IF PromiseAll(wrappers) = "fulfilled"
                     THEN HttpResponse(200, "",
                              [i \in 1..Len(wrappers) |-> wrappers[i].value])
                     ELSE HttpResponse(500, "Batch verification failed", <<>>)]
    /\ UNCHANGED <<now, apiKey, entry, calls, wrappers>>

\* the /api/verify handler runs up to `await verifyLoad(load)`: validation,
\* then verifyLoad to its first suspension
VerifyReceive ==
    /\ entry = "single"
    /\ http.pc = "received"
    /\ LET load == http.body.loads[1]
       IN  IF validateThrows(load)
           THEN /\ http' = [http EXCEPT !.pc = "responded",
                              !.response = HttpResponse(500, "Verification failed", <<>>)]
                /\ UNCHANGED calls
           ELSE IF validateLoadInput(load) # "null"
           THEN /\ http' = [http EXCEPT !.pc = "responded",
                              !.response = HttpResponse(400, "Invalid input", <<>>)]
                /\ UNCHANGED calls
           ELSE /\ calls' = <<verifyLoadStart(NewCall(load), apiKey, now)>>
                /\ http' = [http EXCEPT !.pc = "awaitVerify"]
    /\ UNCHANGED <<now, apiKey, entry, wrappers>>

\* the /api/verify handler resumes after `await verifyLoad(load)` and sends
\* the result (results[1] of the response; the counts belong to the batch
\* response only)
VerifyRespond ==
    /\ entry = "single"
    /\ http.pc = "awaitVerify"
    /\ calls[1].pc = "done"
    /\ http' = [http EXCEPT !.pc = "responded",
                  !.response =
                     IF calls[1].outcome = "returned"
                     THEN HttpResponse(200, "",
                              <<Entry("", calls[1].result.verification_status,
                                      calls[1].result.reasons,
                                      calls[1].result.verified_at,
                                      calls[1].result.metadata, TRUE)>>)
                     ELSE HttpResponse(500, "Verification failed", <<>>)]
    /\ UNCHANGED <<now, apiKey, entry, calls, wrappers>>

Next ==
    \/ \E i \in DOMAIN calls : Invoke(i)
    \/ \E i \in DOMAIN calls : RegistryResponds(i)
    \/ \E i \in DOMAIN calls : Resume(i)
    \/ Tick

NextBatch ==
    \/ BatchReceive
    \/ \E i \in DOMAIN calls : RegistryResponds(i)
    \/ \E i \in DOMAIN calls : Resume(i)
    \/ \E i \in DOMAIN wrappers : WrapperResume(i)
    \/ BatchRespond
    \/ Tick

NextVerify ==
    \/ VerifyReceive
    \/ \E i \in DOMAIN calls : RegistryResponds(i)
    \/ \E i \in DOMAIN calls : Resume(i)
    \/ VerifyRespond
    \/ Tick

Spec == Init /\ [][Next]_vars
SpecBatch == InitBatch /\ [][NextBatch]_vars
SpecVerify == InitVerify /\ [][NextVerify]_vars
SpecPair == InitPair /\ [][Next]_vars
SpecScores == InitScores /\ [][Next]_vars

----------------------------------------------------------------------------
(* Properties *)

Statuses == {"APPROVED", "REJECTED", "NEEDS_REVIEW"}
Finished(c) == c.pc = "done"
\* the load is an offer object or a primitive whose fields are plain data:
\* reading and converting its fields cannot throw
Readable(c) ==
    /\ ~AccessThrows(c.load)
    /\ ~CoercionThrows(Field(c.load, "credit_score"))
    /\ ~CoercionThrows(Field(c.load, "posted_at"))
\* the credit score is a number n with lo <= n <= hi
ScoreIn(c, lo, hi) ==
    /\ c.load.t = "object"
    /\ c.load.credit_score.t = "number"
    /\ lo <= c.load.credit_score.v /\ c.load.credit_score.v <= hi
\* the posting age in minutes at instant clock (NaN if posted_at is no instant)
AgeAt(c, clock) == AgeMinutes(Field(c.load, "posted_at"), clock)

AnyReject(c) ==
    c.creditCheck.reject \/ c.fmcsaCheck.reject \/ c.freshnessCheck.reject
AnyWarning(c) ==
    \/ Present(c.creditCheck.warning)
    \/ Present(c.fmcsaCheck.warning)
    \/ Present(c.freshnessCheck.warning)
Contains(q, x) == \E k \in 1..Len(q) : q[k] = x

\* C1: verifyLoad never throws and never returns a rejected promise: for
\* every input (null, undefined, a primitive, missing or non-numeric fields,
\* unparseable posted_at) and every registry behaviour, a settled call has
\* returned a result whose verification_status is APPROVED, REJECTED or
\* NEEDS_REVIEW.
C1_NeverThrows ==
    \A i \in DOMAIN calls :
        /\ calls[i].outcome # "threw"
        /\ Finished(calls[i]) =>
              /\ calls[i].outcome = "returned"
              /\ calls[i].result.verification_status \in Statuses

\* verifyLoad(null) has settled
C1_Witness ==
    \E i \in DOMAIN calls :
        /\ Finished(calls[i])
        /\ calls[i].load.t = "null"
        /\ calls[i].result.verification_status = "NEEDS_REVIEW"

\* C2: aggregation. For every load whose fields can be read and every
\* registry outcome, the final status is REJECTED iff some evaluated check
\* rejected; otherwise NEEDS_REVIEW iff some check warned; otherwise
\* APPROVED, which is reached only when all three checks ran and passed
\* without warning.
C2_Aggregation ==
    \A i \in DOMAIN calls :
        LET c == calls[i]
            status == c.result.verification_status
        IN  Finished(c) /\ Readable(c) =>
              /\ (status = "REJECTED") <=> AnyReject(c)
              /\ ~AnyReject(c) => ((status = "NEEDS_REVIEW") <=> AnyWarning(c))
              /\ ~AnyReject(c) /\ ~AnyWarning(c) => status = "APPROVED"
              /\ status = "APPROVED" =>
                    /\ c.trace = <<"credit", "registry", "freshness">>
                    /\ ~AnyReject(c) /\ ~AnyWarning(c)

\* a load with a credit warning and a freshness warning, registry active,
\* has been sent to review
C2_Witness ==
    \E i \in DOMAIN calls :
        /\ Finished(calls[i])
        /\ calls[i].fmcsaCheck.status = "ACTIVE"
        /\ Present(calls[i].creditCheck.warning)
        /\ Present(calls[i].freshnessCheck.warning)
        /\ calls[i].result.verification_status = "NEEDS_REVIEW"

\* the case of C3: no credential, credit score within [MIN, MAX], age at
\* most the warning threshold when the decision is taken
C3_Case(c) ==
    /\ Finished(c)
    /\ ~apiKey
    /\ ScoreIn(c, CREDIT_SCORE_MIN, CREDIT_SCORE_MAX)
    /\ ~AgeAt(c, c.result.verified_at).nan
    /\ AgeAt(c, c.result.verified_at).v <= LOAD_FRESHNESS_WARNING_MINUTES

\* C3 as stated: with the lookup skipped for want of a credential, such an
\* offer is APPROVED with an empty reasons list.
C3_Original ==
    \A i \in DOMAIN calls :
        C3_Case(calls[i]) =>
            /\ calls[i].result.verification_status = "APPROVED"
            /\ calls[i].result.reasons = <<>>

\* C3 (amended): with the lookup skipped for want of a credential, an offer
\* whose credit score is within [MIN, MAX] and whose age is at most the
\* warning threshold is NEEDS_REVIEW and its reasons list is exactly the
\* registry-unavailable warning; the same offer is APPROVED with an empty
\* reasons list when the registry lookup ran and answered Active.
C3_SkippedNeedsReview ==
    \A i \in DOMAIN calls :
        LET c == calls[i]
            fresh == /\ Finished(c)
                     /\ ScoreIn(c, CREDIT_SCORE_MIN, CREDIT_SCORE_MAX)
                     /\ ~AgeAt(c, c.result.verified_at).nan
                     /\ AgeAt(c, c.result.verified_at).v
                            <= LOAD_FRESHNESS_WARNING_MINUTES
        IN  /\ C3_Case(c) =>
                /\ c.result.verification_status = "NEEDS_REVIEW"
                /\ c.result.reasons = <<Reason("FMCSA_UNAVAILABLE_NO_KEY", "", 0)>>
                /\ c.gets = 0
            /\ fresh /\ c.fmcsaCheck.status = "ACTIVE" =>
                /\ c.result.verification_status = "APPROVED"
                /\ c.result.reasons = <<>>

\* the test suite's PERFECT_LOAD (score 85, posted 10 minutes ago) has been
\* verified without a credential
C3_Witness ==
    \E i \in DOMAIN calls :
        /\ C3_Case(calls[i])
        /\ calls[i].load.credit_score = JsNumber(85)
        /\ AgeAt(calls[i], calls[i].result.verified_at).v = 10
        /\ calls[i].fmcsaCheck.status = "SKIPPED"

\* C4: a registry timeout, a missing credential or a generic registry error
\* never rejects by itself: when the credit check does not reject, the
\* freshness check does not reject (nor throw) and the lookup outcome is
\* SKIPPED, TIMEOUT or ERROR, the final status is NEEDS_REVIEW and the
\* reasons include the registry warning.
C4_DegradedRegistry ==
    \A i \in DOMAIN calls :
        LET c == calls[i]
        IN  /\ Finished(c)
            /\ c.fmcsaCheck.status \in {"SKIPPED", "TIMEOUT", "ERROR"}
            /\ ~c.creditCheck.reject
            /\ ~c.freshnessCheck.reject
            /\ ~CoercionThrows(Field(c.load, "posted_at"))
            => /\ c.result.verification_status = "NEEDS_REVIEW"
               /\ Present(c.fmcsaCheck.warning)
               /\ Contains(c.result.reasons, c.fmcsaCheck.warning)

\* a load that passes credit and freshness went to review on a timeout
C4_Witness ==
    \E i \in DOMAIN calls :
        /\ Finished(calls[i])
        /\ calls[i].fmcsaCheck.status = "TIMEOUT"
        /\ calls[i].creditCheck.status = "PASSED"
        /\ calls[i].freshnessRan /\ ~Present(calls[i].freshnessCheck.warning)
        /\ calls[i].result.reasons = <<Reason("FMCSA_TIMEOUT", "", 0)>>

\* C5: for every credit score s < MIN the result is REJECTED and its single
\* reason is the credit-below-minimum reason, whatever posted_at, broker_mc,
\* the credential and the registry; the registry is not asked.
C5_LowCreditRejected ==
    \A i \in DOMAIN calls :
        LET c == calls[i]
        IN  Finished(c) /\ ScoreIn(c, -1000, CREDIT_SCORE_MIN - 1) =>
              /\ c.result.verification_status = "REJECTED"
              /\ c.result.reasons =
                    <<Reason("CREDIT_BELOW_MIN", "", c.load.credit_score.v)>>
              /\ c.gets = 0

\* score 81 was rejected although a credential is configured and the
\* posting is stale
C5_Witness ==
    \E i \in DOMAIN calls :
        /\ Finished(calls[i])
        /\ apiKey
        /\ calls[i].load.credit_score = JsNumber(81)
        /\ AgeAt(calls[i], calls[i].started).v > LOAD_FRESHNESS_REJECT_MINUTES
        /\ calls[i].result.verification_status = "REJECTED"

\* C6: for every offer whose posting age exceeds REJECT_THRESHOLD when
\* verifyLoad is called, the final status is REJECTED, whatever the credit
\* score and the registry outcome.
C6_StaleRejected ==
    \A i \in DOMAIN calls :
        LET c == calls[i]
            age == AgeAt(c, c.started)
        IN  /\ Finished(c) /\ Readable(c)
            /\ ~age.nan /\ age.v > LOAD_FRESHNESS_REJECT_MINUTES
            => c.result.verification_status = "REJECTED"

\* a stale offer with a good score and an active carrier was rejected by the
\* freshness check
C6_Witness ==
    \E i \in DOMAIN calls :
        /\ Finished(calls[i])
        /\ calls[i].creditCheck.status = "PASSED"
        /\ calls[i].fmcsaCheck.status = "ACTIVE"
        /\ calls[i].freshnessCheck.reject
        /\ AgeAt(calls[i], calls[i].started).v > LOAD_FRESHNESS_REJECT_MINUTES
        /\ calls[i].result.verification_status = "REJECTED"

CheckOrder == <<"credit", "registry", "freshness">>
IsPrefix(q, r) == Len(q) <= Len(r) /\ \A k \in 1..Len(q) : q[k] = r[k]

\* C7: short-circuit ordering. The checks are evaluated in the order credit,
\* registry, freshness, and after a rejecting check no later check is
\* evaluated: no registry lookup and no GET after a credit reject, no
\* freshness check after a credit or registry reject.
C7_ShortCircuit ==
    \A i \in DOMAIN calls :
        LET c == calls[i]
        IN  /\ IsPrefix(c.trace, CheckOrder)
            /\ c.creditCheck.reject =>
                  c.trace = <<"credit">> /\ c.gets = 0
                  /\ c.fmcsaCheck.status = "unset" /\ ~c.freshnessRan
            /\ c.fmcsaCheck.reject =>
                  c.trace = <<"credit", "registry">> /\ ~c.freshnessRan
            /\ c.gets > 0 => c.creditCheck.status \in {"PASSED", "SUSPICIOUS"}
            /\ c.freshnessRan =>
                  c.fmcsaCheck.status # "unset" /\ ~c.fmcsaCheck.reject

\* the credit check rejected a stale load while a credential is configured
C7_Witness ==
    \E i \in DOMAIN calls :
        /\ Finished(calls[i])
        /\ apiKey
        /\ calls[i].creditCheck.reject
        /\ AgeAt(calls[i], calls[i].started).v > LOAD_FRESHNESS_REJECT_MINUTES

\* the reason of the check that rejected
RejectingReason(c) ==
    IF c.creditCheck.reject THEN c.creditCheck.reason
    ELSE IF c.fmcsaCheck.reject THEN c.fmcsaCheck.reason
    ELSE c.freshnessCheck.reason

\* C8: shape of the reasons list of every returned result: APPROVED carries
\* an empty list; REJECTED carries exactly one reason, that of the rejecting
\* check, and none of the warnings accumulated before; NEEDS_REVIEW carries
\* at least one reason.
C8_ReasonsShape ==
    \A i \in DOMAIN calls :
        LET c == calls[i]
            r == c.result
        IN  Finished(c) =>
              /\ r.verification_status = "APPROVED" => r.reasons = <<>>
              /\ r.verification_status = "REJECTED" =>
                    /\ Len(r.reasons) = 1
                    /\ AnyReject(c)
                    /\ r.reasons[1] = RejectingReason(c)
                    /\ \A k \in 1..Len(c.reasons) :
                          ~Contains(r.reasons, c.reasons[k])
              /\ r.verification_status = "NEEDS_REVIEW" => Len(r.reasons) >= 1

\* a load rejected for staleness after two warnings had accumulated
C8_Witness ==
    \E i \in DOMAIN calls :
        /\ Finished(calls[i])
        /\ calls[i].result.verification_status = "REJECTED"
        /\ calls[i].freshnessCheck.reject
        /\ Len(calls[i].reasons) = 2

\* the batch request was accepted (an array of at most 50 loads) and answered
BatchAnswered ==
    /\ http.pc = "responded"
    /\ http.body.isArray
    /\ Len(http.body.loads) <= MAX_BATCH_LOADS

\* C9: batch isolation. When an element of the batch triggers an exception
\* (a null element), the batch does not fail, the faulty element gets a
\* NEEDS_REVIEW entry and every other element gets the entry of its own
\* verification.
C9_BatchIsolation ==
    BatchAnswered =>
        /\ http.response.status = 200
        /\ Len(http.response.results) = Len(http.body.loads)
        /\ \A i \in 1..Len(http.body.loads) :
              IF AccessThrows(http.body.loads[i])
              THEN http.response.results[i].verification_status = "NEEDS_REVIEW"
              ELSE http.response.results[i] =
                       EntryOf(http.body.loads[i], calls[i].result)

\* C10: batch ordering. The batch output has exactly one entry per input
\* load, and entry i carries the load_id and the result of input load i,
\* whatever the order in which the verifications complete.
C10_BatchOrdering ==
    BatchAnswered =>
        /\ http.response.total = Len(http.body.loads)
        /\ Len(http.response.results) = Len(http.body.loads)
        /\ \A i \in 1..Len(http.body.loads) :
              /\ http.response.results[i].load_id =
                    StrField(http.body.loads[i], "load_id")
              /\ http.response.results[i].verification_status =
                    calls[i].result.verification_status
              /\ http.response.results[i].reasons = calls[i].result.reasons

\* the offer is one that input validation refuses for its posted_at (a
\* string that is no timestamp) or its credit_score (not of type number)
C11_Invalid(load) ==
    /\ load.t = "object"
    /\ \/ load.posted_at.t = "text"
       \/ load.credit_score.t \in {"undefined", "null", "numeral", "text"}

\* C11: invalid input degrades to NEEDS_REVIEW: an offer whose posted_at
\* does not parse as a timestamp or whose credit_score is not a number is
\* verified as NEEDS_REVIEW, never APPROVED or REJECTED, and verifyLoad does
\* not throw.
C11_InvalidNeedsReview ==
    \A i \in DOMAIN calls :
        Finished(calls[i]) /\ C11_Invalid(calls[i].load) =>
            /\ calls[i].outcome = "returned"
            /\ calls[i].result.verification_status = "NEEDS_REVIEW"


\* C12: at most one registry request per verification: the GET is issued
\* zero times when the credit check rejected or no credential is configured,
\* otherwise exactly once, and no second request follows a timeout, a 404 or
\* any other failure.
C12_AtMostOneGet ==
    \A i \in DOMAIN calls :
        LET c == calls[i]
        IN  /\ c.gets <= 1
            /\ c.creditCheck.reject \/ ~apiKey \/ c.trace = <<>> => c.gets = 0
            /\ c.pc = "awaitGet" => c.gets = 1
            /\ c.response.kind # "none" => c.gets = 1

\* a verification has completed after its only GET failed
C12_Witness ==
    \E i \in DOMAIN calls :
        /\ Finished(calls[i])
        /\ calls[i].response.kind = "axiosError"
        /\ calls[i].response.httpStatus = 500
        /\ calls[i].gets = 1

\* C13: pass-through fields do not influence the decision: two offers that
\* agree on credit_score, posted_at and broker_mc, verified against the same
\* registry response and the same clock, get the same verification_status
\* and the same reasons, whatever their load_id, broker_name, pickup_city,
\* delivery_city, rate and equipment.
C13_PassThroughIgnored ==
    \A i \in DOMAIN calls : \A j \in DOMAIN calls :
        LET a == calls[i]
            b == calls[j]
        IN  /\ Finished(a) /\ Finished(b)
            /\ Readable(a) /\ Readable(b)
            /\ Field(a.load, "credit_score") = Field(b.load, "credit_score")
            /\ Field(a.load, "posted_at") = Field(b.load, "posted_at")
            /\ StrField(a.load, "broker_mc") = StrField(b.load, "broker_mc")
            /\ a.response = b.response
            /\ a.result.verified_at = b.result.verified_at
            => /\ a.result.verification_status = b.result.verification_status
               /\ a.result.reasons = b.result.reasons

\* two offers with different rates were both verified against the same
\* active-carrier response at the same instant
C13_Witness ==
    \E i \in DOMAIN calls : \E j \in DOMAIN calls :
        /\ Finished(calls[i]) /\ Finished(calls[j])
        /\ calls[i].load.rate # calls[j].load.rate
        /\ calls[i].response.kind = "ok" /\ calls[i].response = calls[j].response
        /\ calls[i].result.verified_at = calls[j].result.verified_at
        /\ calls[i].result.verification_status = "NEEDS_REVIEW"


\* C14: the credit check as a function of the score, with MIN = 82 and
\* MAX = 97: for every integer s in 0..100, s < 82 gives Reject; 82 <= s <= 97
\* (bounds included) gives Pass with neither warning nor reject; s > 97 gives
\* Warn and never Reject.
C14_CreditCheck ==
    \A i \in DOMAIN calls :
        LET c == calls[i]
            s == c.load.credit_score.v
        IN  ScoreIn(c, 0, 100) /\ c.creditCheck.status # "unset" =>
              /\ s < 82 =>
                    /\ c.creditCheck.reject
                    /\ c.creditCheck.status = "FAILED"
                    /\ ~Present(c.creditCheck.warning)
              /\ 82 <= s /\ s <= 97 =>
                    /\ ~c.creditCheck.reject
                    /\ ~Present(c.creditCheck.warning)
                    /\ c.creditCheck.status = "PASSED"
              /\ s > 97 =>
                    /\ ~c.creditCheck.reject
                    /\ c.creditCheck.status = "SUSPICIOUS"
                    /\ c.creditCheck.warning =
                          Reason("CREDIT_UNUSUALLY_HIGH", "", s)

\* the upper bound itself has been checked and passed
C14_Witness ==
    \E i \in DOMAIN calls :
        /\ calls[i].load.credit_score = JsNumber(97)
        /\ calls[i].creditCheck.status = "PASSED"


\* C15: the freshness check as a function of
\* ageMinutes = floor((now - postedAt) / 60 s), with WARN = 30 and
\* REJECT = 60: ageMinutes > 60 gives Reject; 30 < ageMinutes <= 60 gives
\* Warn (exactly 60 warns); ageMinutes <= 30 gives Pass (exactly 30 passes),
\* and so does every negative age.
C15_FreshnessCheck ==
    \A i \in DOMAIN calls :
        LET c == calls[i]
            f == c.freshnessCheck
            age == (c.result.verified_at - c.load.posted_at.v) \div 60000
        IN  c.freshnessRan /\ c.load.t = "object" /\ c.load.posted_at.t = "iso" =>
              /\ f.ageMinutes = Num(age)
              /\ age > 60 => f.reject /\ ~Present(f.warning)
              /\ 30 < age /\ age <= 60 => ~f.reject /\ Present(f.warning)
              /\ age <= 30 => ~f.reject /\ ~Present(f.warning)

\* a posting exactly 60 minutes old has been checked and only warned
C15_Witness ==
    \E i \in DOMAIN calls :
        /\ calls[i].freshnessRan
        /\ calls[i].freshnessCheck.ageMinutes = Num(60)
        /\ Present(calls[i].freshnessCheck.warning)
        /\ ~calls[i].freshnessCheck.reject

\* a posting dated in the future has been checked
C15_FutureReached ==
    \E i \in DOMAIN calls :
        /\ calls[i].freshnessRan
        /\ ~calls[i].freshnessCheck.ageMinutes.nan
        /\ calls[i].freshnessCheck.ageMinutes.v < 0


\* the GET of call c has settled and verifyFMCSA has returned
Classified(c) == c.response.kind # "none"

\* C16: classification of a successful registry response, for every shape:
\* no body or no carrier record gives NOT_FOUND (reject, no carrier record);
\* a carrier whose authorization code is not 'Y' gives NOT_AUTHORIZED
\* (reject), whatever its out-of-service date; an authorized carrier with an
\* out-of-service date gives OUT_OF_SERVICE (reject); an authorized carrier
\* with no out-of-service date (null or absent) gives ACTIVE (pass). The last
\* three carry the carrier record.
C16_SuccessClassification ==
    \A i \in DOMAIN calls :
        LET c == calls[i]
            r == c.response
            f == c.fmcsaCheck
        IN  Classified(c) /\ r.kind = "ok" =>
              /\ r.data # "carrier" =>
                    f.status = "NOT_FOUND" /\ f.reject /\ ~f.carrier.present
              /\ r.data = "carrier" /\ r.allowedToOperate # "Y" =>
                    f.status = "NOT_AUTHORIZED" /\ f.reject /\ f.carrier.present
              /\ r.data = "carrier" /\ r.allowedToOperate = "Y"
                 /\ r.outOfServiceDate = "date" =>
                    f.status = "OUT_OF_SERVICE" /\ f.reject /\ f.carrier.present
              /\ r.data = "carrier" /\ r.allowedToOperate = "Y"
                 /\ r.outOfServiceDate \in {"null", "absent"} =>
                    f.status = "ACTIVE" /\ ~f.reject /\ f.carrier.present

\* C17: classification of a failed registry request: a connection or
\* deadline timeout gives TIMEOUT with a warning; an HTTP 404 gives NOT_FOUND
\* with a reject; every other failure (other HTTP status, network error,
\* non-axios exception) gives ERROR with a warning. So 404 is the only
\* request failure that can reject a load.
C17_FailureClassification ==
    \A i \in DOMAIN calls :
        LET c == calls[i]
            r == c.response
            f == c.fmcsaCheck
            timeout == r.kind = "axiosError"
                       /\ r.code \in {"ECONNABORTED", "ETIMEDOUT"}
            notFound == r.kind = "axiosError" /\ r.httpStatus = 404
        IN  Classified(c) /\ r.kind # "ok" =>
              /\ timeout =>
                    /\ f.status = "TIMEOUT" /\ ~f.reject
                    /\ f.warning = Reason("FMCSA_TIMEOUT", "", 0)
              /\ ~timeout /\ notFound =>
                    /\ f.status = "NOT_FOUND" /\ f.reject
                    /\ ~Present(f.warning)
              /\ ~timeout /\ ~notFound =>
                    /\ f.status = "ERROR" /\ ~f.reject
                    /\ f.warning = Reason("FMCSA_ERROR", "", 0)
              /\ f.reject => r.httpStatus = 404
              /\ Finished(c) /\ c.result.verification_status = "REJECTED"
                 /\ ~c.freshnessCheck.reject => r.httpStatus = 404

\* a verification whose GET failed with HTTP 500 went to review
C17_Witness ==
    \E i \in DOMAIN calls :
        /\ Finished(calls[i])
        /\ calls[i].response.kind = "axiosError"
        /\ calls[i].response.httpStatus = 500
        /\ calls[i].fmcsaCheck.status = "ERROR"
        /\ calls[i].result.verification_status = "NEEDS_REVIEW"


\* an exception was raised inside the try block of call c: the load is null
\* or undefined, the credit check threw, or the freshness check was reached
\* and threw
Faulted(c) ==
    /\ Finished(c)
    /\ \/ AccessThrows(c.load)
       \/ CoercionThrows(Field(c.load, "credit_score"))
       \/ /\ CoercionThrows(Field(c.load, "posted_at"))
          /\ c.trace = <<"credit", "registry", "freshness">>

\* C18: fault boundary. If an exception escapes at any point of the pipeline
\* (before, inside or between checks), the result is NEEDS_REVIEW, never
\* REJECTED or APPROVED, and its reasons list holds exactly the system-error
\* reason; warnings accumulated from earlier checks are not in the list.
C18_FaultBoundary ==
    \A i \in DOMAIN calls :
        LET c == calls[i]
        IN  Faulted(c) =>
              /\ c.outcome = "returned"
              /\ c.result.verification_status = "NEEDS_REVIEW"
              /\ c.result.reasons = <<Reason("SYSTEM_ERROR", "", 0)>>
              /\ \A k \in 1..Len(c.reasons) :
                    ~Contains(c.result.reasons, c.reasons[k])

\* the freshness check threw after the credit check and the registry check
\* had both warned
C18_Witness ==
    \E i \in DOMAIN calls :
        /\ Faulted(calls[i])
        /\ Len(calls[i].reasons) = 2
        /\ calls[i].trace = <<"credit", "registry", "freshness">>

\* the warning a check returned, as a list of zero or one reasons
WarningOf(check) == IF Present(check.warning) THEN <<check.warning>> ELSE <<>>

\* C19: warning accumulation order. In every NEEDS_REVIEW result produced
\* without a fault, the reasons are the warnings of the checks that warned,
\* at most one per check, in the order credit, registry, freshness: between
\* 1 and 3 entries and none for a check that passed.
C19_WarningOrder ==
    \A i \in DOMAIN calls :
        LET c == calls[i]
        IN  /\ Finished(c) /\ ~Faulted(c)
            /\ c.result.verification_status = "NEEDS_REVIEW"
            => /\ c.result.reasons =
                     WarningOf(c.creditCheck) \o WarningOf(c.fmcsaCheck)
                         \o WarningOf(c.freshnessCheck)
               /\ Len(c.result.reasons) >= 1
               /\ Len(c.result.reasons) <= 3

\* all three checks warned
C19_Witness ==
    \E i \in DOMAIN calls :
        /\ Finished(calls[i]) /\ ~Faulted(calls[i])
        /\ calls[i].result.verification_status = "NEEDS_REVIEW"
        /\ Len(calls[i].result.reasons) = 3
        /\ calls[i].result.reasons[1] = Reason("CREDIT_UNUSUALLY_HIGH", "", 98)
        /\ calls[i].result.reasons[2] = Reason("FMCSA_TIMEOUT", "", 0)
        /\ calls[i].result.reasons[3].kind = "LOAD_MAY_BE_STALE"

\* validateLoadInput accepts the load: it returns null and does not throw
Validated(load) == ~validateThrows(load) /\ validateLoadInput(load) = "null"

\* C20: validation precedes verification on every HTTP path: every offer the
\* HTTP layer hands to verifyLoad, through the single endpoint or as an
\* element of a batch, has passed validateLoadInput.
C20_ValidatedBeforeVerify ==
    entry \in {"single", "batch"} =>
        \A i \in DOMAIN calls :
            calls[i].pc # "notCalled" => Validated(calls[i].load)


====
